---- MODULE Spec2Model ----
(***************************************************************************)
(* Model of the HomuncuLLM relay (src/main.go): a gin HTTP server with a   *)
(* CORS middleware, POST /api/complete, GET /health, and the LLMService    *)
(* that forwards a prompt to the Ollama server's /api/generate.            *)
(*                                                                         *)
(* Every inbound request is served by its own goroutine; the goroutines    *)
(* share only the LLMService value built in main().  A request's handling  *)
(* is cut where it meets the outside: it is accepted, the middleware runs, *)
(* the routed handler runs up to the blocking httpClient.Post, the         *)
(* upstream answers (or the transport fails), the handler finishes.        *)
(***************************************************************************)
EXTENDS Integers, Sequences, FiniteSets, TLC

(***************************************************************************)
(* Bound of the model: the number of inbound requests in flight together.  *)
(***************************************************************************)
NumReq == 2

Requests == 1..NumReq

(***************************************************************************)
(* JSON text as encoding/json sees it.  A value is a string, a number or   *)
(* null; a document is an object of such values, the literal null, or text  *)
(* that is not JSON at all.                                                *)
(***************************************************************************)
Str(s) == [t |-> "string", v |-> s]
Num(s) == [t |-> "number", v |-> s]
Null == [t |-> "null", v |-> ""]

NoFields == [k \in {} |-> Null]
Obj(f) == [kind |-> "object", fields |-> f]
NotJSON == [kind |-> "invalid", fields |-> NoFields]
NullDoc == [kind |-> "null", fields |-> NoFields]
NoBody == [kind |-> "empty", fields |-> NoFields]

\* A Go error value is nil (NoError) or carries a message, kept as the
\* sequence of the parts fmt.Errorf joins.
NoError == <<>>

\* err.Error() of encoding/json and of the validator, as gin reports them.
SyntaxError == <<"invalid character looking for beginning of value">>
TypeError == <<"json: cannot unmarshal value into Go struct field">>
RequiredError(field) ==
    <<"Key: '", field, "' Error:Field validation for '", field,
      "' failed on the 'required' tag">>

\* json.Unmarshal / Decoder.Decode into a struct whose fields are all strings
\* and whose json tags are `keys`: a missing key or a null leaves the zero
\* value "", a string is copied as it is, anything else is a type error.
JSONDecodeMutantLenient(doc, keys) ==
    LET zero == [k \in keys |-> ""]
    IN  CASE doc.kind \in {"invalid", "empty"} -> [err |-> SyntaxError, val |-> zero]
          [] OTHER ->
               [err |-> NoError,
                val |-> [k \in keys |->
                           IF k \in DOMAIN doc.fields /\ doc.fields[k].t = "string"
                           THEN doc.fields[k].v ELSE ""]]
JSONDecode(doc, keys) ==
    LET zero == [k \in keys |-> ""]
    IN  CASE doc.kind \in {"invalid", "empty"} -> [err |-> SyntaxError, val |-> zero]
          [] doc.kind = "null" -> [err |-> NoError, val |-> zero]
          [] OTHER ->
               LET f == doc.fields
                   has(k) == k \in DOMAIN f
                   bad == \E k \in keys : has(k) /\ f[k].t \notin {"string", "null"}
               IN  IF bad
                   THEN [err |-> TypeError, val |-> zero]
                   ELSE [err |-> NoError,
                         val |-> [k \in keys |->
                                    IF has(k) /\ f[k].t = "string" THEN f[k].v ELSE ""]]

\* json.Marshal of a struct of string fields: every field is written, as a
\* JSON string, under its json tag.
JSONMarshal(s) == Obj([k \in DOMAIN s |-> Str(s[k])])

(***************************************************************************)
(* The wire types of main.go.                                              *)
(***************************************************************************)
OllamaRequestKeys == {"model", "prompt"}
OllamaResponseKeys == {"model", "created_at", "response"}
PromptRequestKeys == {"prompt", "model"}

OllamaRequest(model, prompt) == [model |-> model, prompt |-> prompt]
PromptResponse(response, model, time) ==
    [response |-> response, model |-> model, time |-> time]

\* binding:"required" on PromptRequest.Prompt: the zero value fails.
ValidateMutantNotRequired(req) == NoError
Validate(req) ==
    IF req["prompt"] = "" THEN RequiredError("PromptRequest.Prompt") ELSE NoError

\* c.ShouldBindJSON(&req): decode the body, then validate the struct.
ShouldBindJSON(body) ==
    LET d == JSONDecode(body, PromptRequestKeys)
    IN  IF d.err # NoError THEN d ELSE [err |-> Validate(d.val), val |-> d.val]

(***************************************************************************)
(* Configuration read once by main().                                      *)
(***************************************************************************)
EnvDefaultModel == {"", "phi"}

NewLLMService(ollamaURL, defaultModel) ==
    [ollamaURL |-> ollamaURL, defaultModel |-> defaultModel]

MainService(envModel) ==
    NewLLMService("http://localhost:11434",
                  IF envModel = "" THEN "llama2" ELSE envModel)

(***************************************************************************)
(* LLMService.GetCompletion, before and after the blocking Post.           *)
(***************************************************************************)
StatusOK == 200

EffectiveModelMutantAlwaysDefault(s, model) == s.defaultModel
EffectiveModel(s, model) == IF model = "" THEN s.defaultModel ELSE model

\* Lines 59-72: the one request handed to httpClient.Post.
GetCompletionRequest(s, prompt, model) ==
    [method |-> "POST",
     url |-> <<s.ollamaURL, "/api/generate">>,
     contentType |-> "application/json",
     body |-> JSONMarshal(OllamaRequest(EffectiveModel(s, model), prompt))]

\* resp.StatusCode != http.StatusOK
IsErrorStatusMutantAny2xx(code) == code < 200 \/ code > 299
IsErrorStatus(code) == code # StatusOK

\* Line 88: the text GetCompletion hands back out of the decoded reply.
ResponseOfMutantWrongField(resp) == resp["model"]
ResponseOf(resp) == resp["response"]

\* Lines 73-88: what GetCompletion returns for the outcome of the Post.
GetCompletionResult(post) ==
    IF post.err # NoError
    THEN [text |-> "", err |-> <<"ollama request failed: ">> \o post.err]
    ELSE IF IsErrorStatus(post.status)
    THEN [text |-> "",
          err |-> <<"ollama returned status ", ToString(post.status), ": ",
                    post.body.text>>]
    ELSE LET d == JSONDecode(post.body.json, OllamaResponseKeys)
         IN  IF d.err # NoError
             THEN [text |-> "",
                   err |-> <<"failed to decode ollama response: ">> \o d.err]
             ELSE [text |-> ResponseOf(d.val), err |-> NoError]

(***************************************************************************)
(* The HTTP boundary: gin's router, the CORS middleware and the handlers.  *)
(***************************************************************************)
CORSHeaders ==
    ("Access-Control-Allow-Origin" :> "*")
    @@ ("Access-Control-Allow-Methods" :> "POST, GET, OPTIONS")
    @@ ("Access-Control-Allow-Headers" :>
          "Content-Type, Content-Length, Accept-Encoding, Authorization")

NoHeaders == [k \in {} |-> ""]

\* Header().Set: the later value of a name replaces the earlier one.
SetAll(h, new) == new @@ h

\* The header the middleware leaves on the response writer.
MiddlewareHeadersMutantPreflightOnly(method) ==
    IF method = "OPTIONS" THEN CORSHeaders ELSE NoHeaders
MiddlewareHeaders(method) == CORSHeaders

\* The middleware's branch: a preflight is aborted, anything else goes on.
IsPreflight(method) == method = "OPTIONS"

\* router.POST("/api/complete", ...), router.GET("/health", ...); whatever
\* matches neither runs the middleware chain alone and ends as gin's 404.
Route(method, path) ==
    CASE method = "POST" /\ path = "/api/complete" -> "complete"
      [] method = "GET" /\ path = "/health" -> "health"
      [] OTHER -> "notfound"

\* c.JSON(code, obj) and c.AbortWithStatus(code): one written response.
JSONResponse(h, code, obj) ==
    [status |-> code,
     header |-> SetAll(h, "Content-Type" :> "application/json; charset=utf-8"),
     body |-> obj]
StatusResponse(h, code) == [status |-> code, header |-> h, body |-> NoBody]

ErrorEnvelope(err) == Obj("error" :> Str(err))

\* Lines 129-132: the responses written when binding fails.
BindFailure(h, err) == <<JSONResponse(h, 400, ErrorEnvelope(err))>>

\* Lines 136-145: the responses the handler writes once GetCompletion is back.
\* time.Since(startTime).String() is kept as the one token "elapsed".
CompleteResponsesMutantEchoEffective(s, h, req, res) ==
    IF res.err # NoError
    THEN <<JSONResponse(h, 500, ErrorEnvelope(res.err))>>
    ELSE <<JSONResponse(h, 200,
              JSONMarshal(PromptResponse(res.text,
                                         EffectiveModel(s, req["model"]),
                                         "elapsed")))>>
CompleteResponsesMutantMixed(s, h, req, res) ==
    IF res.err # NoError
    THEN <<JSONResponse(h, 500,
              Obj(("error" :> Str(res.err)) @@ ("model" :> Str(req["model"]))))>>
    ELSE <<JSONResponse(h, 200,
              JSONMarshal(PromptResponse(res.text, req["model"], "elapsed")))>>
CompleteResponses(s, h, req, res) ==
    IF res.err # NoError
    THEN <<JSONResponse(h, 500, ErrorEnvelope(res.err))>>
    ELSE <<JSONResponse(h, 200,
              JSONMarshal(PromptResponse(res.text, req["model"], "elapsed")))>>

\* Line 150.
HealthResponsesMutantProbes(h, busy) ==
    <<JSONResponse(h, IF busy THEN 503 ELSE 200,
                   Obj("status" :> Str(IF busy THEN "degraded" ELSE "healthy")))>>
HealthResponses(h, busy) ==
    <<JSONResponse(h, 200, Obj("status" :> Str("healthy")))>>

\* Where GetCompletion goes once Post is back: it returns, whatever came.
AfterPostMutantRetry(post) == IF post.err # NoError THEN "complete" ELSE "returned"
AfterPost(post) == "returned"

(***************************************************************************)
(* What the outside sends: inbound requests and upstream outcomes.         *)
(***************************************************************************)
CompleteBodies ==
    { NotJSON,
      Obj("model" :> Str("mistral")),
      Obj("prompt" :> Str("")),
      Obj("prompt" :> Str("hello")),
      Obj(("prompt" :> Str("hello")) @@ ("model" :> Str(""))),
      Obj(("prompt" :> Str("hello")) @@ ("model" :> Str("mistral"))) }

InboundRequests ==
    { [method |-> "POST", path |-> "/api/complete", body |-> b] : b \in CompleteBodies }
    \cup { [method |-> "GET", path |-> "/health", body |-> NoBody],
           [method |-> "OPTIONS", path |-> "/api/complete", body |-> NoBody],
           [method |-> "OPTIONS", path |-> "/elsewhere", body |-> NoBody],
           [method |-> "GET", path |-> "/elsewhere", body |-> NoBody] }

NoRequest == [method |-> "", path |-> "", body |-> NoBody]

\* Upstream bodies: the bytes on the wire with what a JSON parser makes of them.
Generated(text) ==
    Obj(("model" :> Str("llama2")) @@ ("created_at" :> Str("t"))
        @@ ("response" :> Str(text)))
HiThere == [text |-> "{model:llama2,created_at:t,response:hi there}",
            json |-> Generated("hi there")]
Padded == [text |-> "{model:llama2,created_at:t,response:  Padded <b> }",
           json |-> Generated("  Padded <b> ")]
Overloaded == [text |-> "overloaded", json |-> NotJSON]
NumberResponse == [text |-> "{response:5}", json |-> Obj("response" :> Num("5"))]
NoResponseField == [text |-> "{model:llama2}", json |-> Obj("model" :> Str("llama2"))]
NullLiteral == [text |-> "null", json |-> NullDoc]
NoUpstreamBody == [text |-> "", json |-> NoBody]

OKBodies == {HiThere, Padded, Overloaded, NumberResponse, NoResponseField, NullLiteral}

PostOutcomes ==
    { [err |-> <<"dial tcp: connection refused">>, status |-> 0, body |-> NoUpstreamBody] }
    \cup { [err |-> NoError, status |-> StatusOK, body |-> b] : b \in OKBodies }
    \cup { [err |-> NoError, status |-> 201, body |-> HiThere],
           [err |-> NoError, status |-> 503, body |-> Overloaded] }

NoPost == [err |-> NoError, status |-> 0, body |-> NoUpstreamBody]

(***************************************************************************)
(* State.                                                                  *)
(***************************************************************************)
VARIABLES
    svc,        \* the LLMService main() builds and every handler closes over
    pc,         \* where each request's goroutine stands
    inbound,    \* the request each goroutine serves
    header,     \* c.Writer.Header() of each request
    handled,    \* the handler gin ran for each request, "" while none has
    local,      \* the handler's req after binding
    upstream,   \* the requests handed to httpClient.Post, per inbound request
    post,       \* what httpClient.Post returned
    out         \* the responses written, per inbound request

vars == <<svc, pc, inbound, header, handled, local, upstream, post, out>>

ZeroPromptRequest == [k \in PromptRequestKeys |-> ""]

Init ==
    /\ svc \in {MainService(m) : m \in EnvDefaultModel}
    /\ pc = [r \in Requests |-> "idle"]
    /\ inbound = [r \in Requests |-> NoRequest]
    /\ header = [r \in Requests |-> NoHeaders]
    /\ handled = [r \in Requests |-> ""]
    /\ local = [r \in Requests |-> ZeroPromptRequest]
    /\ upstream = [r \in Requests |-> <<>>]
    /\ post = [r \in Requests |-> NoPost]
    /\ out = [r \in Requests |-> <<>>]

\* The server accepts a request; r is its place in the order of arrival.
Accept(r) ==
    /\ pc[r] = "idle"
    /\ \A p \in Requests : p < r => pc[p] # "idle"
    /\ \E q \in InboundRequests : inbound' = [inbound EXCEPT ![r] = q]
    /\ pc' = [pc EXCEPT ![r] = "cors"]
    /\ UNCHANGED <<svc, header, handled, local, upstream, post, out>>

\* Lines 115-124.
CORSMiddleware(r) ==
    /\ pc[r] = "cors"
    /\ LET h == SetAll(header[r], MiddlewareHeaders(inbound[r].method))
       IN  /\ header' = [header EXCEPT ![r] = h]
           /\ IF IsPreflight(inbound[r].method)
              THEN /\ out' = [out EXCEPT ![r] = Append(@, StatusResponse(h, 204))]
                   /\ pc' = [pc EXCEPT ![r] = "done"]
              ELSE /\ out' = out
                   /\ pc' = [pc EXCEPT ![r] = Route(inbound[r].method, inbound[r].path)]
    /\ UNCHANGED <<svc, inbound, handled, local, upstream, post>>

\* Lines 127-135 and 59-72: bind, validate, and enter GetCompletion up to Post.
CompleteHandler(r) ==
    /\ pc[r] = "complete"
    /\ handled' = [handled EXCEPT ![r] = "complete"]
    /\ LET b == ShouldBindJSON(inbound[r].body)
       IN  IF b.err # NoError
           THEN /\ out' = [out EXCEPT ![r] = @ \o BindFailure(header[r], b.err)]
                /\ pc' = [pc EXCEPT ![r] = "done"]
                /\ UNCHANGED <<local, upstream>>
           ELSE /\ local' = [local EXCEPT ![r] = b.val]
                /\ upstream' = [upstream EXCEPT ![r] =
                      Append(@, GetCompletionRequest(svc, b.val["prompt"], b.val["model"]))]
                /\ pc' = [pc EXCEPT ![r] = "waiting"]
                /\ out' = out
    /\ UNCHANGED <<svc, inbound, header, post>>

\* Line 72: Post comes back, with the upstream's reply or a transport error.
PostReturns(r) ==
    /\ pc[r] = "waiting"
    /\ \E o \in PostOutcomes :
         /\ post' = [post EXCEPT ![r] = o]
         /\ pc' = [pc EXCEPT ![r] = AfterPost(o)]
    /\ UNCHANGED <<svc, inbound, header, handled, local, upstream, out>>

\* Lines 73-88 and 136-145.
CompleteFinish(r) ==
    /\ pc[r] = "returned"
    /\ out' = [out EXCEPT ![r] =
          @ \o CompleteResponses(svc, header[r], local[r], GetCompletionResult(post[r]))]
    /\ pc' = [pc EXCEPT ![r] = "done"]
    /\ UNCHANGED <<svc, inbound, header, handled, local, upstream, post>>

\* Lines 149-151.
HealthHandler(r) ==
    /\ pc[r] = "health"
    /\ handled' = [handled EXCEPT ![r] = "health"]
    /\ out' = [out EXCEPT ![r] =
          @ \o HealthResponses(header[r], \E p \in Requests : pc[p] = "waiting")]
    /\ pc' = [pc EXCEPT ![r] = "done"]
    /\ UNCHANGED <<svc, inbound, header, local, upstream, post>>

\* No route matched: gin answers 404 after the middleware chain.
NotFound(r) ==
    /\ pc[r] = "notfound"
    /\ out' = [out EXCEPT ![r] = Append(@, StatusResponse(header[r], 404))]
    /\ pc' = [pc EXCEPT ![r] = "done"]
    /\ UNCHANGED <<svc, inbound, header, handled, local, upstream, post>>

Next ==
    \E r \in Requests :
        \/ Accept(r)
        \/ CORSMiddleware(r)
        \/ CompleteHandler(r)
        \/ PostReturns(r)
        \/ CompleteFinish(r)
        \/ HealthHandler(r)
        \/ NotFound(r)

Spec == Init /\ [][Next]_vars

(***************************************************************************)
(* Vocabulary of the properties, read off the requests and replies         *)
(* themselves rather than off the handlers.                                *)
(***************************************************************************)
IsComplete(r) == inbound[r].method = "POST" /\ inbound[r].path = "/api/complete"

\* The JSON string under key k of a body, "" when it is not there.
Field(doc, k) ==
    IF doc.kind = "object" /\ k \in DOMAIN doc.fields /\ doc.fields[k].t = "string"
    THEN doc.fields[k].v ELSE ""
HasString(doc, k) ==
    doc.kind = "object" /\ k \in DOMAIN doc.fields /\ doc.fields[k].t = "string"

\* A request for a completion whose body is a JSON object with ...
PromptMissing(r) == IsComplete(r) /\ inbound[r].body.kind = "object"
                    /\ Field(inbound[r].body, "prompt") = ""
ValidRequest(r) == IsComplete(r) /\ inbound[r].body.kind = "object"
                   /\ Field(inbound[r].body, "prompt") # ""
InboundModel(r) == Field(inbound[r].body, "model")

Done(r) == pc[r] = "done"
Replied(r) == post[r].err = NoError /\ post[r].status # 0
OneResponse(r) == Len(out[r]) = 1
Keys(resp) == DOMAIN resp.body.fields
Contains(msg, part) == \E i \in 1..Len(msg) : msg[i] = part
IsErrorEnvelope(resp) == resp.body.kind = "object" /\ Keys(resp) = {"error"}
IsSuccessEnvelope(resp) ==
    resp.body.kind = "object" /\ Keys(resp) = {"response", "model", "time"}
HasCORS(resp) ==
    \A k \in DOMAIN CORSHeaders :
        k \in DOMAIN resp.header /\ resp.header[k] = CORSHeaders[k]

\* C1: a completion request whose prompt is missing or empty never causes an
\* upstream POST, and is answered 400 with an error envelope.
C1_NoUpstreamOnMissingPrompt ==
    \A r \in Requests :
        PromptMissing(r) =>
            /\ upstream[r] = <<>>
            /\ pc[r] \in {"cors", "complete", "done"}
            /\ Done(r) => /\ OneResponse(r)
                          /\ out[r][1].status = 400
                          /\ IsErrorEnvelope(out[r][1])
C1_Witness ==
    \E r, p \in Requests :
        /\ Done(r) /\ PromptMissing(r) /\ "prompt" \notin DOMAIN inbound[r].body.fields
        /\ Done(p) /\ PromptMissing(p) /\ "prompt" \in DOMAIN inbound[p].body.fields
        /\ out[r][1].status = 400 /\ out[p][1].status = 400

\* C2: the model sent upstream is the inbound model when that is not empty and
\* the default configured at startup when it is; the configuration is never
\* changed by a step of any request.
C2_ModelSent ==
    \A r \in Requests :
        \A i \in 1..Len(upstream[r]) :
            upstream[r][i].body.fields["model"] =
                Str(IF InboundModel(r) # "" THEN InboundModel(r) ELSE svc.defaultModel)
\* C2, with the service configuration unchanged by every step.
C2_UpstreamModel == []C2_ModelSent /\ [][svc' = svc]_vars
C2_Witness ==
    \E r, p \in Requests :
        /\ pc[r] = "waiting" /\ pc[p] = "waiting"
        /\ InboundModel(r) = "" /\ InboundModel(p) = "mistral"
        /\ upstream[r][1].body.fields["model"] = Str(svc.defaultModel)
        /\ upstream[p][1].body.fields["model"] = Str("mistral")
        /\ svc.defaultModel = "phi"

\* C3: when the upstream replied 200 with a string response field, the 200
\* envelope of that request carries that very string.
C3_ResponseRelayed ==
    \A r \in Requests :
        (Done(r) /\ ValidRequest(r) /\ Replied(r) /\ post[r].status = 200
         /\ HasString(post[r].body.json, "response")
         /\ \A k \in OllamaResponseKeys :
               k \in DOMAIN post[r].body.json.fields =>
                   post[r].body.json.fields[k].t \in {"string", "null"})
        => /\ OneResponse(r)
           /\ out[r][1].status = 200
           /\ out[r][1].body.fields["response"] = post[r].body.json.fields["response"]
C3_Witness ==
    \E r, p \in Requests :
        /\ Done(r) /\ Done(p)
        /\ post[r] = [err |-> NoError, status |-> 200, body |-> HiThere]
        /\ post[p] = [err |-> NoError, status |-> 200, body |-> Padded]
        /\ out[r][1].body.fields["response"] = Str("hi there")
        /\ out[p][1].body.fields["response"] = Str("  Padded <b> ")

\* C4: an upstream reply of any status but 200 makes GetCompletion return an
\* error naming the status and the body text; the endpoint answers 500 with
\* that message and never a success envelope.
C4_NonOKStatus ==
    \A r \in Requests :
        (Done(r) /\ ValidRequest(r) /\ Replied(r) /\ post[r].status # 200)
        => /\ OneResponse(r)
           /\ out[r][1].status = 500
           /\ IsErrorEnvelope(out[r][1])
           /\ Contains(out[r][1].body.fields["error"].v, ToString(post[r].status))
           /\ Contains(out[r][1].body.fields["error"].v, post[r].body.text)
           /\ GetCompletionResult(post[r]).err = out[r][1].body.fields["error"].v
C4_Witness ==
    \E r, p \in Requests :
        /\ Done(r) /\ Done(p)
        /\ post[r].status = 503 /\ post[r].body.text = "overloaded"
        /\ post[p].status = 201
        /\ out[r][1].status = 500 /\ out[p][1].status = 500
        /\ Contains(out[r][1].body.fields["error"].v, "503")
        /\ Contains(out[r][1].body.fields["error"].v, "overloaded")

\* C5: a valid completion request causes exactly one upstream POST to
\* /api/generate, made before the handler waits, and none after any outcome.
C5_OneUpstreamPost ==
    \A r \in Requests :
        /\ Len(upstream[r]) <= 1
        /\ \A i \in 1..Len(upstream[r]) :
              /\ upstream[r][i].method = "POST"
              /\ upstream[r][i].url = <<svc.ollamaURL, "/api/generate">>
        /\ (ValidRequest(r) /\ pc[r] \in {"waiting", "returned", "done"})
              => Len(upstream[r]) = 1
C5_Witness ==
    \E r, p \in Requests :
        /\ Done(r) /\ Done(p) /\ ValidRequest(r) /\ ValidRequest(p)
        /\ post[r].err # NoError
        /\ post[p].status = 200 /\ post[p].body = Overloaded
        /\ Len(upstream[r]) = 1 /\ Len(upstream[p]) = 1

\* C6: a valid completion request gets exactly one envelope: 200 with
\* {response, model, time} exactly when GetCompletion returned no error, and
\* 500 with {error} alone otherwise.
C6_OneEnvelope ==
    \A r \in Requests :
        ValidRequest(r) =>
            /\ ~Done(r) => out[r] = <<>>
            /\ Done(r) =>
                 /\ OneResponse(r)
                 /\ IF GetCompletionResult(post[r]).err = NoError
                    THEN out[r][1].status = 200 /\ IsSuccessEnvelope(out[r][1])
                    ELSE out[r][1].status = 500 /\ IsErrorEnvelope(out[r][1])
                 /\ (\/ post[r].err # NoError
                     \/ post[r].status # 200
                     \/ post[r].body.json.kind = "invalid"
                     \/ post[r].body = NumberResponse)
                    => out[r][1].status = 500 /\ IsErrorEnvelope(out[r][1])
C6_Witness ==
    \E r, p \in Requests :
        /\ Done(r) /\ Done(p) /\ ValidRequest(r) /\ ValidRequest(p)
        /\ out[r][1].status = 200 /\ IsSuccessEnvelope(out[r][1])
        /\ out[p][1].status = 500 /\ IsErrorEnvelope(out[p][1])
        /\ post[p].err # NoError

\* C7: the model of a 200 envelope is the model of the inbound request, the
\* empty string when the caller gave none, not the model sent upstream.
C7_EnvelopeModel ==
    \A r \in Requests :
        (Done(r) /\ ValidRequest(r) /\ OneResponse(r) /\ out[r][1].status = 200)
        => out[r][1].body.fields["model"] = Str(InboundModel(r))
C7_Witness ==
    \E r \in Requests :
        /\ Done(r) /\ ValidRequest(r)
        /\ "model" \notin DOMAIN inbound[r].body.fields
        /\ out[r][1].status = 200
        /\ out[r][1].body.fields["model"] = Str("")
        /\ upstream[r][1].body.fields["model"] = Str(svc.defaultModel)

\* C8: an OPTIONS request on any path is answered 204 with no body and the
\* CORS headers, no handler runs for it and no upstream call is made; every
\* response of every route carries the CORS headers.
C8_Preflight ==
    \A r \in Requests :
        /\ \A i \in 1..Len(out[r]) : HasCORS(out[r][i])
        /\ inbound[r].method = "OPTIONS" =>
              /\ handled[r] = ""
              /\ upstream[r] = <<>>
              /\ pc[r] \in {"cors", "done"}
              /\ Done(r) => /\ OneResponse(r)
                            /\ out[r][1].status = 204
                            /\ out[r][1].body = NoBody
C8_Witness ==
    \E r, p \in Requests :
        /\ Done(r) /\ Done(p)
        /\ inbound[r].method = "OPTIONS" /\ inbound[r].path = "/api/complete"
        /\ inbound[p].method = "POST" /\ out[p][1].status = 200
        /\ out[r][1].status = 204 /\ HasCORS(out[r][1]) /\ HasCORS(out[p][1])

\* C9: GET /health is answered 200 {status: "healthy"} whatever the upstream
\* is doing, and causes no upstream call.
C9_Health ==
    \A r \in Requests :
        (inbound[r].method = "GET" /\ inbound[r].path = "/health")
        => /\ upstream[r] = <<>>
           /\ pc[r] \in {"cors", "health", "done"}
           /\ Done(r) => /\ OneResponse(r)
                         /\ out[r][1].status = 200
                         /\ out[r][1].body = Obj("status" :> Str("healthy"))
C9_Witness ==
    \E r, p \in Requests :
        /\ Done(r) /\ inbound[r].path = "/health" /\ inbound[r].method = "GET"
        /\ out[r][1].status = 200
        /\ pc[p] = "waiting"

====
